---- MODULE Spec2Model ----
(***************************************************************************)
(* Placement simulation engine of python_agent: the command queue of       *)
(* BinPackingSimulation (simulation/gui.py), the Tk-scheduled dispatch     *)
(* loop process_commands, the synchronous validators it calls, and the     *)
(* plan runner simulate_placement (simple_simulation.py).                  *)
(*                                                                         *)
(* Coordinates and sizes are Python numbers; the model uses integers.      *)
(* A command is a Python dict and is modelled as a record whose DOMAIN is  *)
(* the dict's key set, so that a missing key is a missing field.           *)
(***************************************************************************)
EXTENDS Integers, Sequences, FiniteSets, TLC

(* ---------------- bounds of the model ---------------- *)

\* number of records in the plan walked by simulate_placement
PlanLen == 2
\* number of commands put by producers other than the plan runner
MaxExtra == 1
\* number of lines in the optimizer's output
MaxLines == 3

(* ---------------- configuration (gui.py __init__) ---------------- *)

BinIds == {0, 1, 2, 3}

InitBins ==
    [b \in BinIds |->
        CASE b = 0 -> [width |-> 220, height |-> 220, items |-> <<>>]
          [] b = 1 -> [width |-> 180, height |-> 200, items |-> <<>>]
          [] b = 2 -> [width |-> 200, height |-> 180, items |-> <<>>]
          [] b = 3 -> [width |-> 160, height |-> 160, items |-> <<>>]]

(* ---------------- inputs ---------------- *)

\* top-left corners a plan record may name
Positions == {<<0, 0>>, <<25, 25>>, <<60, 0>>, <<200, 0>>, <<-10, 0>>}
\* <<bin id, corner>> pairs a plan record may name (99 is not configured)
Targets ==
    ({0} \X Positions) \cup {<<1, <<0, 0>>>>, <<99, <<0, 0>>>>}
\* sizes a plan record may name
Sizes == {<<50, 50>>}
Shapes == {"RECTANGLE"}
ItemTypes == {"Rectangle A"}

\* the dict built by place_item for plan record number k
PlaceCommand(k, b, pos, size, shape, ty) ==
    [type |-> "place_item", item_id |-> k, bin_id |-> b,
     x |-> pos[1], y |-> pos[2], width |-> size[1], height |-> size[2],
     shape |-> shape, item_type |-> ty]

\* the dict built by reset_simulation
ResetCommand == [type |-> "reset"]

\* the shutdown sentinel: Python None, which is not a dict
None == [sentinel |-> TRUE]

\* a place_item dict without its "x" key
MalformedCommand ==
    [type |-> "place_item", item_id |-> 0, bin_id |-> 0,
     y |-> 0, width |-> 50, height |-> 50,
     shape |-> "RECTANGLE", item_type |-> "Rectangle A"]

\* commands a thread may put on command_queue directly
RawCommands ==
    {None, MalformedCommand, [type |-> "update_stats"], [type |-> "noop"]}

(* ---------------- state ---------------- *)

VARIABLES
    bins,           \* self.bins: bin id -> [width, height, items]
    command_queue,  \* self.command_queue (queue.Queue, FIFO, unbounded)
    stats_text,     \* contents of the statistics Text widget
    loop_pc,        \* process_commands: "running", "scheduled" or "dead"
    runner_i,       \* simulate_placement: number of plan records issued
    reports,        \* simulate_placement: one printed line per attempt
    extra_n,        \* number of commands put by the other producers
    enqueued,       \* history: every command put, in put order
    applied,        \* history: every command dequeued, with its result
    snap_pc,        \* a get_simulation_state call of another thread:
                    \* -1 not called, 0..3 next bin of its loop, 4 returned
    snap_view,      \* the state dict that call is building
    output_lines,   \* run_optimization: result.stdout.split('\n')
    extraction      \* run_optimization: what the extraction has produced

vars == <<bins, command_queue, stats_text, loop_pc, runner_i, reports,
          extra_n, enqueued, applied, snap_pc, snap_view, output_lines,
          extraction>>

(* ---------------- pure helpers ---------------- *)

\* dict.get(key) with None as the default
Get(command, key) ==
    IF key \in DOMAIN command THEN command[key] ELSE "None"

IsNone(command) == "sentinel" \in DOMAIN command

PlaceFields ==
    {"item_id", "bin_id", "x", "y", "width", "height", "shape", "item_type"}

\* PlacedItem(item_id, item_type, bin_id, x, y, width, height, shape)
PlacedItem(item_id, item_type, bin_id, x, y, width, height, shape) ==
    [item_id |-> item_id, item_type |-> item_type, bin_id |-> bin_id,
     x |-> x, y |-> y, width |-> width, height |-> height, shape |-> shape]

\* items_overlap with the operands of its second comparison exchanged
items_overlap_swapped(item1, item2) ==
    ~ (\/ item1.x + item1.width <= item2.x
       \/ item2.x <= item1.x + item1.width
       \/ item1.y + item1.height <= item2.y
       \/ item2.y + item2.height <= item1.y)

\* items_overlap comparing only items of the same shape
items_overlap_same_shape(item1, item2) ==
    /\ item1.shape = item2.shape
    /\ ~ (\/ item1.x + item1.width <= item2.x
          \/ item2.x + item2.width <= item1.x
          \/ item1.y + item1.height <= item2.y
          \/ item2.y + item2.height <= item1.y)

\* items_overlap with strict comparisons: touching boxes overlap
items_overlap_touching(item1, item2) ==
    ~ (\/ item1.x + item1.width < item2.x
       \/ item2.x + item2.width < item1.x
       \/ item1.y + item1.height < item2.y
       \/ item2.y + item2.height < item1.y)

items_overlap(item1, item2) ==
    ~ (\/ item1.x + item1.width <= item2.x
       \/ item2.x + item2.width <= item1.x
       \/ item1.y + item1.height <= item2.y
       \/ item2.y + item2.height <= item1.y)

\* the fit test turning away an item that touches the far edge
does_not_fit_at_edge(bin_data, x, y, width, height) ==
    x + width >= bin_data.width \/ y + height >= bin_data.height

\* the fit test of place_item_sync: TRUE when the item is turned away
does_not_fit(bin_data, x, y, width, height) ==
    x + width > bin_data.width \/ y + height > bin_data.height

\* first_overlap keeping the last hit of a loop that does not return early
first_overlap_last(items, new_item) ==
    LET hits == {i \in 1..Len(items) : items_overlap(new_item, items[i])}
    IN  IF hits = {} THEN 0
        ELSE CHOOSE i \in hits : \A j \in hits : i >= j

\* index of the first existing item the new one overlaps, 0 when none
first_overlap(items, new_item) ==
    LET hits == {i \in 1..Len(items) : items_overlap(new_item, items[i])}
    IN  IF hits = {} THEN 0
        ELSE CHOOSE i \in hits : \A j \in hits : i <= j

RECURSIVE used_area_true_shape(_)
\* used_area counting a triangle as half of its rectangle
used_area_true_shape(items) ==
    IF items = <<>> THEN 0
    ELSE (IF Head(items).shape = "TRIANGLE"
          THEN (Head(items).width * Head(items).height) \div 2
          ELSE Head(items).width * Head(items).height)
         + used_area_true_shape(Tail(items))

RECURSIVE used_area(_)
\* sum(item.width * item.height for item in items)
used_area(items) ==
    IF items = <<>> THEN 0
    ELSE Head(items).width * Head(items).height + used_area(Tail(items))

RECURSIVE SumSet(_, _)
SumSet(f, S) ==
    IF S = {} THEN 0
    ELSE LET e == CHOOSE e \in S : TRUE
         IN  f[e] + SumSet(f, S \ {e})

\* bin_utilization without the factor 100: a fraction, not a percentage
bin_utilization_fraction(bin_data) ==
    LET total_area == bin_data.width * bin_data.height
    IN  IF total_area > 0
        THEN (used_area(bin_data.items) * 100) \div total_area
        ELSE 0

\* utilization is a float percentage, used_area / total_area * 100; the
\* model keeps it in units of 0.01 percent, rounded down
bin_utilization(bin_data) ==
    LET total_area == bin_data.width * bin_data.height
    IN  IF total_area > 0
        THEN (used_area(bin_data.items) * 100 * 100) \div total_area
        ELSE 0

\* get_simulation_state dividing the total item area by the total bin area
get_simulation_state_area_weighted(b) ==
    LET per_bin == [i \in DOMAIN b |->
                      [width |-> b[i].width, height |-> b[i].height,
                       items |-> b[i].items,
                       utilization |-> bin_utilization(b[i])]]
        all_used == SumSet([i \in DOMAIN b |-> used_area(b[i].items)], DOMAIN b)
        all_area == SumSet([i \in DOMAIN b |-> b[i].width * b[i].height],
                           DOMAIN b)
    IN  [bins |-> per_bin,
         total_items |-> SumSet([i \in DOMAIN b |-> Len(b[i].items)], DOMAIN b),
         total_utilization |->
             IF all_area > 0 THEN (all_used * 100 * 100) \div all_area ELSE 0]

get_simulation_state(b) ==
    LET per_bin == [i \in DOMAIN b |->
                      [width |-> b[i].width, height |-> b[i].height,
                       items |-> b[i].items,
                       utilization |-> bin_utilization(b[i])]]
    IN  [bins |-> per_bin,
         total_items |-> SumSet([i \in DOMAIN b |-> Len(b[i].items)], DOMAIN b),
         total_utilization |->
             SumSet([i \in DOMAIN b |-> per_bin[i].utilization], DOMAIN b)
                 \div Cardinality(DOMAIN b)]

\* "%.1f": to one decimal, from units of 0.01 to units of 0.1
Format1f(u) == (u + 5) \div 10

\* the text update_stats_sync writes into the widget
update_stats_sync(b) ==
    LET state == get_simulation_state(b)
    IN  [bins |-> [i \in DOMAIN state.bins |->
                     [width |-> state.bins[i].width,
                      height |-> state.bins[i].height,
                      items |-> Len(state.bins[i].items),
                      utilization |-> Format1f(state.bins[i].utilization),
                      item_types |->
                          {state.bins[i].items[k].item_type :
                               k \in 1..Len(state.bins[i].items)}]],
         total_items |-> state.total_items,
         average |-> Format1f(state.total_utilization)]

(* ---------------- the state owner's operations ---------------- *)

\* place_item_sync appending the new item before the overlap loop
place_item_sync_append_first(b, st, c) ==
    IF c.bin_id \notin DOMAIN b
    THEN [bins |-> b, stats |-> st,
          result |-> [tag |-> "Error: Bin does not exist",
                      item_id |-> c.item_id, bin_id |-> c.bin_id, other |-> 0]]
    ELSE
    LET bin_data == b[c.bin_id]
        new_item == PlacedItem(c.item_id, c.item_type, c.bin_id,
                               c.x, c.y, c.width, c.height, c.shape)
        hit      == first_overlap(bin_data.items, new_item)
        nb       == [b EXCEPT ![c.bin_id].items = Append(@, new_item)]
    IN  IF does_not_fit(bin_data, c.x, c.y, c.width, c.height)
        THEN [bins |-> b, stats |-> st,
              result |-> [tag |-> "Error: does not fit",
                          item_id |-> c.item_id, bin_id |-> c.bin_id,
                          other |-> 0]]
        ELSE IF hit # 0
        THEN [bins |-> nb, stats |-> st,
              result |-> [tag |-> "Error: overlaps",
                          item_id |-> c.item_id, bin_id |-> c.bin_id,
                          other |-> bin_data.items[hit].item_id]]
        ELSE [bins |-> nb, stats |-> update_stats_sync(nb),
              result |-> [tag |-> "Successfully placed",
                          item_id |-> c.item_id, bin_id |-> c.bin_id,
                          other |-> 0]]

\* place_item_sync putting the new item at the head of the bin's list
place_item_sync_insert_head(b, st, c) ==
    IF c.bin_id \notin DOMAIN b
    THEN [bins |-> b, stats |-> st,
          result |-> [tag |-> "Error: Bin does not exist",
                      item_id |-> c.item_id, bin_id |-> c.bin_id, other |-> 0]]
    ELSE
    LET bin_data == b[c.bin_id]
        new_item == PlacedItem(c.item_id, c.item_type, c.bin_id,
                               c.x, c.y, c.width, c.height, c.shape)
        hit      == first_overlap(bin_data.items, new_item)
    IN  IF does_not_fit(bin_data, c.x, c.y, c.width, c.height)
        THEN [bins |-> b, stats |-> st,
              result |-> [tag |-> "Error: does not fit",
                          item_id |-> c.item_id, bin_id |-> c.bin_id,
                          other |-> 0]]
        ELSE IF hit # 0
        THEN [bins |-> b, stats |-> st,
              result |-> [tag |-> "Error: overlaps",
                          item_id |-> c.item_id, bin_id |-> c.bin_id,
                          other |-> bin_data.items[hit].item_id]]
        ELSE LET nb == [b EXCEPT ![c.bin_id].items = <<new_item>> \o @]
             IN  [bins |-> nb, stats |-> update_stats_sync(nb),
                  result |-> [tag |-> "Successfully placed",
                              item_id |-> c.item_id, bin_id |-> c.bin_id,
                              other |-> 0]]

\* place_item_sync: the bins and statistics it leaves, and what it returns
place_item_sync(b, st, c) ==
    IF c.bin_id \notin DOMAIN b
    THEN [bins |-> b, stats |-> st,
          result |-> [tag |-> "Error: Bin does not exist",
                      item_id |-> c.item_id, bin_id |-> c.bin_id, other |-> 0]]
    ELSE
    LET bin_data == b[c.bin_id]
        new_item == PlacedItem(c.item_id, c.item_type, c.bin_id,
                               c.x, c.y, c.width, c.height, c.shape)
        hit      == first_overlap(bin_data.items, new_item)
    IN  IF does_not_fit(bin_data, c.x, c.y, c.width, c.height)
        THEN [bins |-> b, stats |-> st,
              result |-> [tag |-> "Error: does not fit",
                          item_id |-> c.item_id, bin_id |-> c.bin_id,
                          other |-> 0]]
        ELSE IF hit # 0
        THEN [bins |-> b, stats |-> st,
              result |-> [tag |-> "Error: overlaps",
                          item_id |-> c.item_id, bin_id |-> c.bin_id,
                          other |-> bin_data.items[hit].item_id]]
        ELSE LET nb == [b EXCEPT ![c.bin_id].items = Append(@, new_item)]
             IN  [bins |-> nb, stats |-> update_stats_sync(nb),
                  result |-> [tag |-> "Successfully placed",
                              item_id |-> c.item_id, bin_id |-> c.bin_id,
                              other |-> 0]]

\* reset_simulation_sync leaving its loop after the first bin
reset_simulation_sync_first_only(b) ==
    LET nb == [i \in DOMAIN b |->
                 IF i = 0 THEN [b[i] EXCEPT !.items = <<>>] ELSE b[i]]
    IN  [bins |-> nb, stats |-> update_stats_sync(nb)]

\* reset_simulation_sync building every bin anew with the size of bin 0
reset_simulation_sync_rebuild(b) ==
    LET nb == [i \in DOMAIN b |->
                 [width |-> 220, height |-> 220, items |-> <<>>]]
    IN  [bins |-> nb, stats |-> update_stats_sync(nb)]

reset_simulation_sync(b) ==
    LET nb == [i \in DOMAIN b |-> [b[i] EXCEPT !.items = <<>>]]
    IN  [bins |-> nb, stats |-> update_stats_sync(nb)]

NoResult == [tag |-> "none", item_id |-> 0, bin_id |-> 0, other |-> 0]
Raised   == [tag |-> "raised", item_id |-> 0, bin_id |-> 0, other |-> 0]

\* execute_command sending update_stats to the Reset branch
execute_command_stats_resets(b, st, c) ==
    LET cmd_type == Get(c, "type")
    IN  IF cmd_type = "place_item"
        THEN IF PlaceFields \subseteq DOMAIN c
             THEN place_item_sync(b, st, c)
             ELSE [bins |-> b, stats |-> st, result |-> Raised]
        ELSE IF cmd_type = "reset" \/ cmd_type = "update_stats"
        THEN [bins |-> reset_simulation_sync(b).bins,
              stats |-> reset_simulation_sync(b).stats, result |-> NoResult]
        ELSE [bins |-> b, stats |-> st, result |-> NoResult]

\* execute_command with a final else branch that raises
execute_command_else_raises(b, st, c) ==
    LET cmd_type == Get(c, "type")
    IN  IF cmd_type = "place_item"
        THEN IF PlaceFields \subseteq DOMAIN c
             THEN place_item_sync(b, st, c)
             ELSE [bins |-> b, stats |-> st, result |-> Raised]
        ELSE IF cmd_type = "reset"
        THEN [bins |-> reset_simulation_sync(b).bins,
              stats |-> reset_simulation_sync(b).stats, result |-> NoResult]
        ELSE IF cmd_type = "update_stats"
        THEN [bins |-> b, stats |-> update_stats_sync(b), result |-> NoResult]
        ELSE [bins |-> b, stats |-> st, result |-> Raised]

\* execute_command on a dict: KeyError when a place_item key is missing
execute_command(b, st, c) ==
    LET cmd_type == Get(c, "type")
    IN  IF cmd_type = "place_item"
        THEN IF PlaceFields \subseteq DOMAIN c
             THEN place_item_sync(b, st, c)
             ELSE [bins |-> b, stats |-> st, result |-> Raised]
        ELSE IF cmd_type = "reset"
        THEN [bins |-> reset_simulation_sync(b).bins,
              stats |-> reset_simulation_sync(b).stats, result |-> NoResult]
        ELSE IF cmd_type = "update_stats"
        THEN [bins |-> b, stats |-> update_stats_sync(b), result |-> NoResult]
        ELSE [bins |-> b, stats |-> st, result |-> NoResult]

(* ---------------- the producers ---------------- *)

\* queue.Queue() is constructed with no maxsize: 0, a queue of any length
queue_maxsize == 0

\* a queue with room for one command only
queue_full_one_slot(q) == Len(q) >= 1

\* put() waits while this holds
queue_full(q) == queue_maxsize > 0 /\ Len(q) >= queue_maxsize

\* what place_item returns to its caller
place_item_result(c) ==
    [tag |-> "Placed", item_id |-> c.item_id, bin_id |-> c.bin_id, other |-> 0]

\* the plan runner's test  "Error" in result
ContainsError(result) ==
    result.tag \in {"Error: Bin does not exist", "Error: does not fit",
                    "Error: overlaps"}

\* the plan records (step dicts) naming a target of T
PlanRecords(T) ==
    {[bin_id |-> t[1], pos |-> t[2], size |-> size, shape |-> shape,
      item_type |-> ty] :
         t \in T, size \in Sizes, shape \in Shapes, ty \in ItemTypes}

\* simulate_placement leaving its loop once a placement has been rejected
simulate_placement_of_abort(R) ==
    /\ runner_i < PlanLen
    /\ ~ queue_full(command_queue)
    /\ \A i \in 1..Len(applied) : ~ ContainsError(applied[i].result)
    /\ \E rec \in R :
          LET c == PlaceCommand(runner_i + 1, rec.bin_id, rec.pos, rec.size,
                                rec.shape, rec.item_type)
              result == place_item_result(c)
          IN  /\ command_queue' = Append(command_queue, c)
              /\ enqueued' = Append(enqueued, c)
              /\ reports' = Append(reports,
                                   [item_id |-> c.item_id,
                                    line |-> IF ContainsError(result)
                                             THEN "failed" ELSE "ok"])
    /\ runner_i' = runner_i + 1
    /\ UNCHANGED <<output_lines, extraction, snap_pc, snap_view, bins, stats_text, loop_pc, extra_n, applied>>

\* one iteration of the loop of simulate_placement over a plan of n steps,
\* its plan record drawn from R
simulate_placement_step(R, n) ==
    /\ runner_i < n
    /\ ~ queue_full(command_queue)
    /\ \E rec \in R :
          LET c == PlaceCommand(runner_i + 1, rec.bin_id, rec.pos, rec.size,
                                rec.shape, rec.item_type)
              result == place_item_result(c)
          IN  /\ command_queue' = Append(command_queue, c)
              /\ enqueued' = Append(enqueued, c)
              /\ reports' = Append(reports,
                                   [item_id |-> c.item_id,
                                    line |-> IF ContainsError(result)
                                             THEN "failed" ELSE "ok"])
    /\ runner_i' = runner_i + 1
    /\ UNCHANGED <<output_lines, extraction, snap_pc, snap_view, bins, stats_text, loop_pc, extra_n, applied>>

\* simulate_placement on a plan of PlanLen steps drawn from R
simulate_placement_of(R) == simulate_placement_step(R, PlanLen)

\* one iteration of the loop of simulate_placement, its plan record
\* naming a target of T
simulate_placement_from(T) == simulate_placement_of(PlanRecords(T))

simulate_placement == simulate_placement_from(Targets)

\* reset_simulation clearing the bins itself before it puts the command
reset_simulation_direct ==
    /\ extra_n < MaxExtra
    /\ loop_pc # "running"
    /\ ~ queue_full(command_queue)
    /\ bins' = reset_simulation_sync(bins).bins
    /\ command_queue' = Append(command_queue, ResetCommand)
    /\ enqueued' = Append(enqueued, ResetCommand)
    /\ extra_n' = extra_n + 1
    /\ UNCHANGED <<output_lines, extraction, snap_pc, snap_view, stats_text, loop_pc, runner_i, reports, applied>>

\* reset_simulation replacing the queue's contents by its command
reset_simulation_lossy ==
    /\ extra_n < MaxExtra
    /\ loop_pc # "running"
    /\ ~ queue_full(command_queue)
    /\ command_queue' = <<ResetCommand>>
    /\ enqueued' = Append(enqueued, ResetCommand)
    /\ extra_n' = extra_n + 1
    /\ UNCHANGED <<output_lines, extraction, snap_pc, snap_view, bins, stats_text, loop_pc, runner_i, reports, applied>>

\* the Reset button: a Tk callback, run by the main loop between callbacks
reset_simulation ==
    /\ extra_n < MaxExtra
    /\ loop_pc # "running"
    /\ ~ queue_full(command_queue)
    /\ command_queue' = Append(command_queue, ResetCommand)
    /\ enqueued' = Append(enqueued, ResetCommand)
    /\ extra_n' = extra_n + 1
    /\ UNCHANGED <<output_lines, extraction, snap_pc, snap_view, bins, stats_text, loop_pc, runner_i, reports, applied>>

\* another thread putting a command of C on command_queue
command_queue_put_of(C) ==
    /\ extra_n < MaxExtra
    /\ ~ queue_full(command_queue)
    /\ \E c \in C :
          /\ command_queue' = Append(command_queue, c)
          /\ enqueued' = Append(enqueued, c)
    /\ extra_n' = extra_n + 1
    /\ UNCHANGED <<output_lines, extraction, snap_pc, snap_view, bins, stats_text, loop_pc, runner_i, reports, applied>>

\* another thread putting a command on command_queue
command_queue_put == command_queue_put_of(RawCommands)

(* ---------------- the dispatch loop: process_commands ---------------- *)

\* root.after(100, process_commands) fires
process_commands_start ==
    /\ loop_pc = "scheduled"
    /\ loop_pc' = "running"
    /\ UNCHANGED <<output_lines, extraction, snap_pc, snap_view, bins, command_queue, stats_text, runner_i, reports,
                   extra_n, enqueued, applied>>

\* get() handing out the newest command instead of the oldest
queue_get_newest(q) == q[Len(q)]

\* the command get() hands out
queue_get(q) == Head(q)
queue_rest(q) == Tail(q)

\* get() returns a dict and execute_command returns or raises
process_commands_execute ==
    /\ loop_pc = "running"
    /\ command_queue # <<>>
    /\ ~ IsNone(queue_get(command_queue))
    /\ LET command == queue_get(command_queue)
           r == execute_command(bins, stats_text, command)
       IN  /\ bins' = r.bins
           /\ stats_text' = r.stats
           /\ applied' = Append(applied, [command |-> command,
                                           result |-> r.result])
           /\ loop_pc' = IF r.result = Raised THEN "dead" ELSE "running"
    /\ command_queue' = queue_rest(command_queue)
    /\ UNCHANGED <<output_lines, extraction, snap_pc, snap_view, runner_i, reports, extra_n, enqueued>>

\* where process_commands goes after  if command is None: break
after_sentinel == "scheduled"

\* get() returns None: break, then root.after(100, process_commands)
process_commands_sentinel ==
    /\ loop_pc = "running"
    /\ command_queue # <<>>
    /\ IsNone(queue_get(command_queue))
    /\ applied' = Append(applied, [command |-> queue_get(command_queue),
                                    result |-> NoResult])
    /\ command_queue' = queue_rest(command_queue)
    /\ loop_pc' = after_sentinel
    /\ UNCHANGED <<output_lines, extraction, snap_pc, snap_view, bins, stats_text, runner_i, reports, extra_n, enqueued>>

\* get(timeout=0.1) raises queue.Empty: reschedule
process_commands_empty ==
    /\ loop_pc = "running"
    /\ command_queue = <<>>
    /\ loop_pc' = "scheduled"
    /\ UNCHANGED <<output_lines, extraction, snap_pc, snap_view, bins, command_queue, stats_text, runner_i, reports,
                   extra_n, enqueued, applied>>

process_commands ==
    \/ process_commands_start
    \/ process_commands_execute
    \/ process_commands_sentinel
    \/ process_commands_empty

(* ------- run_optimization: the JSON object in the optimizer's output ------- *)

\* a line is a sequence of characters; these are the lines of the outputs
OutputLineKinds ==
    {<<>>, <<"a">>, <<"{">>, <<"}">>, <<" ", "{">>, <<"{", "}">>,
     <<"{", "a">>, <<"a", "{">>, <<"{", "}", "a">>, <<"{", "}", "}">>,
     <<"{", "{", "}">>}

\* the outputs: up to MaxLines lines
OutputLineSeqs ==
    UNION {[1..n -> OutputLineKinds] : n \in 0..MaxLines}

\* str.strip(): the line without its leading and trailing blanks
strip(line) ==
    LET solid == {k \in 1..Len(line) : line[k] # " " /\ line[k] # "\n"}
    IN  IF solid = {} THEN <<>>
        ELSE SubSeq(line, CHOOSE k \in solid : \A j \in solid : k <= j,
                          CHOOSE k \in solid : \A j \in solid : k >= j)

\* line.strip().startswith('{')
startswith_brace(line) == strip(line) # <<>> /\ strip(line)[1] = "{"

\* the first loop: index (from 0) of the first line that starts with '{',
\* -1 when there is none
json_start_of(lines) ==
    LET hits == {i \in 1..Len(lines) : startswith_brace(lines[i])}
    IN  IF hits = {} THEN -1
        ELSE (CHOOSE i \in hits : \A j \in hits : i <= j) - 1

RECURSIVE scan_line(_, _, _)
\* for char in line, from the k-th character on: the count it ends with
\* and whether it broke out at a '}' that brought the count to 0
scan_line(line, k, brace_count) ==
    IF k > Len(line) THEN [brace_count |-> brace_count, closed |-> FALSE]
    ELSE IF line[k] = "{" THEN scan_line(line, k + 1, brace_count + 1)
    ELSE IF line[k] = "}"
    THEN IF brace_count - 1 = 0
         THEN [brace_count |-> 0, closed |-> TRUE]
         ELSE scan_line(line, k + 1, brace_count - 1)
    ELSE scan_line(line, k + 1, brace_count)

RECURSIVE scan_lines(_, _, _)
\* for i in range(json_start, len(output_lines)): json_end, -1 when the
\* count never comes back to 0
scan_lines(lines, i, brace_count) ==
    IF i >= Len(lines) THEN -1
    ELSE LET r == scan_line(lines[i + 1], 1, brace_count)
         IN  IF r.closed THEN i + 1
             ELSE scan_lines(lines, i + 1, r.brace_count)

RECURSIVE join(_)
\* '\n'.join(lines)
join(lines) ==
    IF lines = <<>> THEN <<>>
    ELSE IF Len(lines) = 1 THEN lines[1]
    ELSE lines[1] \o <<"\n">> \o join(Tail(lines))

\* the extraction has not run
NotRun ==
    [status |-> "not run", json_start |-> -1, json_end |-> -1,
     json_output |-> <<>>]

\* the extraction of run_optimization: the message it stops with, or the
\* text it hands to json.loads
extract_json(lines) ==
    LET json_start == json_start_of(lines)
        json_end == IF json_start = -1 THEN -1
                    ELSE scan_lines(lines, json_start, 0)
    IN  IF json_start = -1
        THEN [status |-> "No JSON output found!", json_start |-> -1,
              json_end |-> -1, json_output |-> <<>>]
        ELSE IF json_end = -1
        THEN [status |-> "Incomplete JSON output found!",
              json_start |-> json_start, json_end |-> -1,
              json_output |-> <<>>]
        ELSE [status |-> "extracted", json_start |-> json_start,
              json_end |-> json_end,
              json_output |-> join(SubSeq(lines, json_start + 1, json_end))]

(* ---------------- specification ---------------- *)

\* __init__ has run: process_commands() found the queue empty and
\* rescheduled itself; the Text widget is still empty
Init ==
    /\ bins = InitBins
    /\ command_queue = <<>>
    /\ stats_text = [bins |-> <<>>, total_items |-> 0, average |-> 0]
    /\ loop_pc = "scheduled"
    /\ runner_i = 0
    /\ reports = <<>>
    /\ extra_n = 0
    /\ enqueued = <<>>
    /\ applied = <<>>
    /\ snap_pc = -1
    /\ snap_view = [bins |-> <<>>, total_items |-> 0, total_utilization |-> 0]
    /\ output_lines = <<>>
    /\ extraction = NotRun

Next ==
    \/ simulate_placement
    \/ reset_simulation
    \/ command_queue_put
    \/ process_commands

Spec == Init /\ [][Next]_vars

\* the targets of the plan records in the liveness specification
LiveTargets == {<<0, <<0, 0>>>>, <<0, <<25, 25>>>>, <<99, <<0, 0>>>>}

simulate_placement_live == simulate_placement_from(LiveTargets)

LiveNext ==
    \/ simulate_placement_live
    \/ reset_simulation
    \/ command_queue_put
    \/ process_commands

(* ------- plans with items of every shape ------- *)

\* the plan records of the shape specification
ShapeRecords ==
    {[bin_id |-> 0, pos |-> <<0, 0>>, size |-> <<50, 50>>,
      shape |-> "RECTANGLE", item_type |-> "Rectangle A"],
     [bin_id |-> 0, pos |-> <<60, 0>>, size |-> <<40, 20>>,
      shape |-> "TRIANGLE", item_type |-> "Triangle Small"],
     [bin_id |-> 0, pos |-> <<25, 25>>, size |-> <<40, 20>>,
      shape |-> "TRIANGLE", item_type |-> "Triangle Small"],
     [bin_id |-> 1, pos |-> <<0, 0>>, size |-> <<30, 30>>,
      shape |-> "CIRCLE", item_type |-> "Circle Small"]}

simulate_placement_shapes == simulate_placement_of(ShapeRecords)

ShapeNext ==
    \/ simulate_placement_shapes
    \/ reset_simulation
    \/ command_queue_put
    \/ process_commands

\* the engine driven by plans of rectangles, triangles and circles
ShapeSpec == Init /\ [][ShapeNext]_vars

(* ------- three-step plans for bin 0 ------- *)

\* a plan record for a 50x50 rectangle in bin 0
ScriptRecord(pos) ==
    [bin_id |-> 0, pos |-> pos, size |-> <<50, 50>>,
     shape |-> "RECTANGLE", item_type |-> "Rectangle A"]

\* the records each step of the plan is drawn from
Script ==
    <<{ScriptRecord(<<0, 0>>), ScriptRecord(<<60, 0>>)},
      {ScriptRecord(<<25, 25>>), ScriptRecord(<<60, 0>>),
       ScriptRecord(<<0, 0>>)},
      {ScriptRecord(<<60, 0>>), ScriptRecord(<<25, 25>>)}>>

\* simulate_placement on a plan whose k-th step is drawn from S[k]
simulate_placement_plan(S) ==
    simulate_placement_step(IF runner_i < Len(S) THEN S[runner_i + 1] ELSE {},
                            Len(S))

simulate_placement_script == simulate_placement_plan(Script)

ScriptNext ==
    \/ simulate_placement_script
    \/ reset_simulation
    \/ command_queue_put
    \/ process_commands

\* the engine driven by three-step plans for bin 0
ScriptSpec == Init /\ [][ScriptNext]_vars

(* ------- plans with items at the far edges of a bin ------- *)

\* a plan record for a 50x50 rectangle
EdgeRecord(bin_id, pos) ==
    [bin_id |-> bin_id, pos |-> pos, size |-> <<50, 50>>,
     shape |-> "RECTANGLE", item_type |-> "Rectangle A"]

\* flush with both far edges of bin 0 and of bin 3, one unit over either
\* edge of bin 0, and the item at (200,0)
EdgeRecords ==
    {EdgeRecord(0, <<170, 170>>), EdgeRecord(0, <<171, 170>>),
     EdgeRecord(0, <<170, 171>>), EdgeRecord(0, <<200, 0>>),
     EdgeRecord(3, <<110, 110>>)}

simulate_placement_edges == simulate_placement_of(EdgeRecords)

EdgeNext ==
    \/ simulate_placement_edges
    \/ reset_simulation
    \/ command_queue_put
    \/ process_commands

\* the engine driven by plans that place items at the far edges
EdgeSpec == Init /\ [][EdgeNext]_vars

(* ------- three-step plans for two bins ------- *)

\* the records each step of the plan is drawn from: the same coordinates in
\* bin 0 and bin 1, and items of bin 0 side by side
TwoBinScript ==
    <<{EdgeRecord(0, <<0, 0>>), EdgeRecord(1, <<0, 0>>)},
      {EdgeRecord(1, <<0, 0>>), EdgeRecord(0, <<50, 0>>),
       EdgeRecord(0, <<25, 25>>)},
      {EdgeRecord(0, <<50, 0>>), EdgeRecord(0, <<0, 0>>),
       EdgeRecord(1, <<0, 0>>)}>>

simulate_placement_two_bins == simulate_placement_plan(TwoBinScript)

TwoBinNext ==
    \/ simulate_placement_two_bins
    \/ reset_simulation
    \/ command_queue_put
    \/ process_commands

\* the engine driven by three-step plans for bin 0 and bin 1
TwoBinSpec == Init /\ [][TwoBinNext]_vars

(* ------- commands execute_command has no branch for ------- *)

\* a dict with no "type" key
UntypedCommand == [item_id |-> 1]

\* the commands another thread puts in the dispatch specification
DispatchCommands == RawCommands \cup {UntypedCommand}

command_queue_put_any == command_queue_put_of(DispatchCommands)

DispatchNext ==
    \/ simulate_placement_live
    \/ reset_simulation
    \/ command_queue_put_any
    \/ process_commands

\* the engine with dicts of any kind put on its queue
DispatchSpec == Init /\ [][DispatchNext]_vars

(* ------- plans with large items, some left of the bin ------- *)

\* 150x150 items for bin 3 (160x160), at the origin and wholly to the left
\* of the bin, and a 50x50 item for bin 0
AreaRecords ==
    {[bin_id |-> 3, pos |-> <<0, 0>>, size |-> <<150, 150>>,
      shape |-> "RECTANGLE", item_type |-> "Rectangle A"],
     [bin_id |-> 3, pos |-> <<-150, 0>>, size |-> <<150, 150>>,
      shape |-> "RECTANGLE", item_type |-> "Rectangle A"],
     [bin_id |-> 0, pos |-> <<0, 0>>, size |-> <<50, 50>>,
      shape |-> "RECTANGLE", item_type |-> "Rectangle A"]}

simulate_placement_area == simulate_placement_of(AreaRecords)

AreaNext ==
    \/ simulate_placement_area
    \/ reset_simulation
    \/ command_queue_put
    \/ process_commands

\* the engine driven by plans of large items
AreaSpec == Init /\ [][AreaNext]_vars

(* ------- run_optimization on the outputs of the optimizer ------- *)

\* the optimizer has returned with some output; the engine is as built
ExtractInit ==
    /\ bins = InitBins
    /\ command_queue = <<>>
    /\ stats_text = [bins |-> <<>>, total_items |-> 0, average |-> 0]
    /\ loop_pc = "scheduled"
    /\ runner_i = 0
    /\ reports = <<>>
    /\ extra_n = 0
    /\ enqueued = <<>>
    /\ applied = <<>>
    /\ snap_pc = -1
    /\ snap_view = [bins |-> <<>>, total_items |-> 0, total_utilization |-> 0]
    /\ output_lines \in OutputLineSeqs
    /\ extraction = NotRun

\* run_optimization parses the output
run_optimization ==
    /\ extraction = NotRun
    /\ extraction' = extract_json(output_lines)
    /\ UNCHANGED <<output_lines, bins, command_queue, stats_text, loop_pc,
                   runner_i, reports, extra_n, enqueued, applied, snap_pc,
                   snap_view>>

ExtractNext == run_optimization

\* run_optimization on every output of up to MaxLines lines
ExtractSpec == ExtractInit /\ [][ExtractNext]_vars

(* ------- get_simulation_state called from another thread ------- *)

\* the bin ids in the order self.bins.items() yields them
BinOrder == <<0, 1, 2, 3>>

\* the call starts: the state dict with no bins yet
get_simulation_state_begin ==
    /\ snap_pc = -1
    /\ snap_pc' = 0
    /\ snap_view' = [bins |-> <<>>, total_items |-> 0, total_utilization |-> 0]
    /\ UNCHANGED <<output_lines, extraction, bins, command_queue, stats_text, loop_pc, runner_i,
                   reports, extra_n, enqueued, applied>>

\* one iteration of its loop over the bins; after the last one the sum of
\* the utilizations is divided by the number of bins and the dict returned
get_simulation_state_bin ==
    /\ snap_pc \in 0..(Len(BinOrder) - 1)
    /\ LET bin_id == BinOrder[snap_pc + 1]
           bin_data == bins[bin_id]
           entry == [width |-> bin_data.width, height |-> bin_data.height,
                     items |-> bin_data.items,
                     utilization |-> bin_utilization(bin_data)]
           total == snap_view.total_utilization + entry.utilization
           last == snap_pc + 1 = Len(BinOrder)
       IN  snap_view' =
               [bins |-> snap_view.bins @@ (bin_id :> entry),
                total_items |-> snap_view.total_items + Len(bin_data.items),
                total_utilization |->
                    IF last THEN total \div Cardinality(DOMAIN bins)
                    ELSE total]
    /\ snap_pc' = snap_pc + 1
    /\ UNCHANGED <<output_lines, extraction, bins, command_queue, stats_text, loop_pc, runner_i,
                   reports, extra_n, enqueued, applied>>

\* the targets of the plan records in the snapshot specification
SnapTargets == {<<0, <<0, 0>>>>, <<1, <<0, 0>>>>}

simulate_placement_snap == simulate_placement_from(SnapTargets)

SnapNext ==
    \/ simulate_placement_snap
    \/ reset_simulation
    \/ command_queue_put
    \/ process_commands
    \/ get_simulation_state_begin
    \/ get_simulation_state_bin

\* the engine with one get_simulation_state call made beside the Tk thread
SnapSpec == Init /\ [][SnapNext]_vars

\* the Tk main loop keeps running its timers and the loop body
FairSpec == Init /\ [][LiveNext]_vars /\ WF_vars(process_commands)

(* ---------------- properties ---------------- *)

\* the overlap predicate on two boxes, written out
BoxesOverlap(A, B) ==
    ~ (\/ A.x + A.width <= B.x
       \/ B.x + B.width <= A.x
       \/ A.y + A.height <= B.y
       \/ B.y + B.height <= A.y)

\* the fit predicate on a box and a bin, written out
BoxFits(A, bin_data) ==
    /\ A.x >= 0
    /\ A.y >= 0
    /\ A.x + A.width <= bin_data.width
    /\ A.y + A.height <= bin_data.height

ErrorTags ==
    {"Error: Bin does not exist", "Error: does not fit", "Error: overlaps"}

\* a well-formed place_item command
IsPlace(c) == Get(c, "type") = "place_item" /\ PlaceFields \subseteq DOMAIN c

\* a place_item command with a key missing
IsMalformed(c) ==
    Get(c, "type") = "place_item" /\ ~ (PlaceFields \subseteq DOMAIN c)

\* the dispatch loop dequeues a command in this step
Dequeues == Len(applied') = Len(applied) + 1

\* the entry the dispatch loop adds to the history in this step
JustApplied == applied'[Len(applied')]

\* C1: no two distinct items held in the same bin overlap.
C1_NoOverlap ==
    \A b \in DOMAIN bins :
        \A i, j \in 1..Len(bins[b].items) :
            i # j => ~ BoxesOverlap(bins[b].items[i], bins[b].items[j])

\* a bin holds two items that were both checked against each other
C1_Witness ==
    \E b \in DOMAIN bins : Len(bins[b].items) >= 2

\* C2: every item held in a bin has x >= 0, y >= 0, x + width <= bin.width
\* and y + height <= bin.height.
C2_FitInvariant ==
    \A b \in DOMAIN bins :
        \A i \in 1..Len(bins[b].items) : BoxFits(bins[b].items[i], bins[b])

\* C3: a step in which a placement is rejected (bin not configured, does
\* not fit, overlaps) leaves the bins exactly as they were.
C3_RejectionNoMutation ==
    [][(Dequeues /\ JustApplied.result.tag \in ErrorTags) => bins' = bins]_vars

\* each of the three rejections has happened while a bin held an item
C3_Witness ==
    /\ \E b \in DOMAIN bins : bins[b].items # <<>>
    /\ \E i \in 1..Len(applied) : applied[i].result.tag = "Error: overlaps"

RECURSIVE Replay(_, _)
\* the bins after applying the commands of a sequence one at a time
Replay(b, cmds) ==
    IF cmds = <<>> THEN b
    ELSE Replay(IF IsNone(Head(cmds)) THEN b
                ELSE execute_command(b, stats_text, Head(cmds)).bins,
                Tail(cmds))

\* C4: commands are applied in enqueue order: the applied commands are the
\* first commands enqueued, in the same order, the queue holds the rest, and
\* the bins are those that applying that prefix in order produces.
C4_FIFO ==
    /\ Len(applied) <= Len(enqueued)
    /\ \A i \in 1..Len(applied) : applied[i].command = enqueued[i]
    /\ command_queue = SubSeq(enqueued, Len(applied) + 1, Len(enqueued))
    /\ bins = Replay(InitBins, SubSeq(enqueued, 1, Len(applied)))

\* a placement succeeded only because a Reset enqueued before it had been
\* applied: it overlaps an item placed in the same bin before that Reset
C4_Witness ==
    /\ Len(applied) = 3
    /\ applied[1].result.tag = "Successfully placed"
    /\ applied[2].command = ResetCommand
    /\ applied[3].result.tag = "Successfully placed"
    /\ applied[1].command.bin_id = applied[3].command.bin_id
    /\ BoxesOverlap(applied[1].command, applied[3].command)

\* C5: at most one command of the plan runner is pending in the queue.
C5_OnePending ==
    Cardinality({i \in 1..Len(command_queue) : IsPlace(command_queue[i])}) <= 1

\* C6: the line the plan runner prints for an attempt says "ok" exactly
\* when the dispatch loop placed that item.
C6_TruthfulReport ==
    \A i \in 1..Len(applied) :
        IsPlace(applied[i].command) =>
            LET k == applied[i].command.item_id
            IN  (reports[k].line = "ok")
                    <=> (applied[i].result.tag = "Successfully placed")

\* C7: a step that dequeues a malformed command leaves the bins unchanged
\* and leaves the dispatch loop able to dequeue again.
C7_MalformedIsolated ==
    [][(Dequeues /\ IsMalformed(JustApplied.command))
           => (bins' = bins /\ loop_pc' # "dead")]_vars

\* C8: every command enqueued is eventually dequeued by the dispatch loop.
C8_EventuallyApplied ==
    \A i \in 1..(PlanLen + MaxExtra) :
        (Len(enqueued) >= i) ~> (Len(applied) >= i)

\* C9: once the sentinel has been dequeued the dispatch loop has exited: it
\* is neither running nor rescheduled and it dequeues nothing after it.
C9_SentinelStops ==
    \A i \in 1..Len(applied) :
        IsNone(applied[i].command) =>
            (Len(applied) = i /\ loop_pc \notin {"running", "scheduled"})

\* C10: a placement into an existing bin whose box fails the fit predicate
\* is rejected as "does not fit".
C10_FitPrecedesOverlap ==
    \A i \in 1..Len(applied) :
        LET c == applied[i].command
        IN  (IsPlace(c) /\ c.bin_id \in DOMAIN InitBins
                 /\ ~ BoxFits(c, InitBins[c.bin_id]))
                => applied[i].result.tag = "Error: does not fit"

\* the outcome the four-way decision assigns to a placement c on bins b
DecidedOutcome(b, c) ==
    IF c.bin_id \notin DOMAIN b THEN "Error: Bin does not exist"
    ELSE IF ~ BoxFits(c, b[c.bin_id]) THEN "Error: does not fit"
    ELSE IF \E k \in 1..Len(b[c.bin_id].items) :
                BoxesOverlap(c, b[c.bin_id].items[k])
         THEN "Error: overlaps"
    ELSE "Successfully placed"

\* C11: every placement gets the outcome decided in the order: bin not
\* configured, fit predicate false, overlaps an item of the bin, success.
C11_FourOutcomes ==
    \A i \in 1..Len(applied) :
        IsPlace(applied[i].command) =>
            applied[i].result.tag =
                DecidedOutcome(Replay(InitBins, SubSeq(enqueued, 1, i - 1)),
                               applied[i].command)

\* C12: between commands the statistics view is the one derived from the
\* bins as the commands applied so far have left them.
C12_StatsTrackPrefix ==
    stats_text = update_stats_sync(bins)

\* C13: a step that applies Reset leaves every bin with no items, so the
\* snapshot shows no items, total items 0 and overall utilization 0; and
\* applying Reset once more changes neither the bins nor the statistics.
C13_ResetTotalIdempotent ==
    [][(Dequeues /\ JustApplied.command = ResetCommand)
          => /\ \A b \in DOMAIN bins' : bins'[b].items = <<>>
             /\ \A b \in DOMAIN bins' :
                    get_simulation_state(bins').bins[b].items = <<>>
             /\ get_simulation_state(bins').total_items = 0
             /\ get_simulation_state(bins').total_utilization = 0
             /\ reset_simulation_sync(bins').bins = bins'
             /\ reset_simulation_sync(bins').stats = stats_text']_vars

\* a Reset has just been applied to bins that held an item
C13_Witness ==
    /\ Len(applied) >= 2
    /\ applied[Len(applied)].command = ResetCommand
    /\ \E i \in 1..(Len(applied) - 1) :
           applied[i].result.tag = "Successfully placed"
    /\ \A b \in DOMAIN bins : bins[b].items = <<>>

\* C14: the bin ids and every bin's width and height are those set at
\* construction.
C14_BinsImmutable ==
    /\ DOMAIN bins = DOMAIN InitBins
    /\ \A b \in DOMAIN bins :
           /\ bins[b].width = InitBins[b].width
           /\ bins[b].height = InitBins[b].height

\* a placement naming an unknown bin and a Reset have both been applied
C14_Witness ==
    /\ \E i \in 1..Len(applied) :
           applied[i].result.tag = "Error: Bin does not exist"
    /\ \E i \in 1..Len(applied) : applied[i].command = ResetCommand

RECURSIVE SequentialPlan(_, _)
\* the bins a plan leaves when its records are validated and placed one
\* at a time, in plan order, with nothing running beside
SequentialPlan(b, plan) ==
    IF plan = <<>> THEN b
    ELSE SequentialPlan(place_item_sync(b, <<>>, Head(plan)).bins, Tail(plan))

\* C15: with the plan runner as the only producer, once the queue is
\* drained the bins are those of the sequential run of the plan issued.
C15_DeterministicAccumulation ==
    (extra_n = 0 /\ command_queue = <<>>)
        => bins = SequentialPlan(InitBins, enqueued)

\* a drained run of the runner alone in which the order of two records
\* decided which of them is held
C15_Witness ==
    /\ extra_n = 0
    /\ command_queue = <<>>
    /\ Len(applied) >= 2
    /\ \E i \in 1..Len(applied) : applied[i].result.tag = "Error: overlaps"

\* C16: the plan runner has issued exactly one place command per record
\* so far, in plan order, with one report line each, and while records
\* remain it can issue the next whatever the outcomes were.
C16_RunnerNeverAborts ==
    LET issued == SelectSeq(enqueued, IsPlace)
    IN  /\ runner_i <= PlanLen
        /\ Len(issued) = runner_i
        /\ \A k \in 1..Len(issued) : issued[k].item_id = k
        /\ Len(reports) = runner_i
        /\ \A k \in 1..Len(reports) : reports[k].item_id = k
        /\ (runner_i < PlanLen) => ENABLED simulate_placement

\* the runner has gone through its whole plan although a placement of it
\* was rejected
C16_Witness ==
    /\ runner_i = PlanLen
    /\ Len(reports) = PlanLen
    /\ \E i \in 1..Len(applied) :
           /\ ContainsError(applied[i].result)
           /\ applied[i].command.item_id < PlanLen

\* C17: the bins change only in a step in which the dispatch loop dequeues
\* a command; a step that puts a command appends it to the queue and
\* leaves the bins as they were.
C17_SingleWriter ==
    [][/\ (bins' # bins) => Dequeues
       /\ (Len(enqueued') > Len(enqueued))
             => /\ bins' = bins
                /\ command_queue' =
                       Append(command_queue, enqueued'[Len(enqueued')])]_vars

\* a Reset and a placement are pending while a bin still holds an item
C17_Witness ==
    /\ \E k \in 1..Len(command_queue) : command_queue[k] = ResetCommand
    /\ \E k \in 1..Len(command_queue) : IsPlace(command_queue[k])
    /\ \E b \in DOMAIN bins : bins[b].items # <<>>

\* a command put by a producer other than the plan runner
IsOther(c) == ~ IsPlace(c)

\* C18: taking the dequeued commands followed by the pending ones, the
\* plan runner's commands are its records 1, 2, ... once each and in that
\* order, and the other producers' commands are the ones they put, once
\* each and in put order.
C18_PerProducerOrder ==
    LET all == [i \in 1..Len(applied) |-> applied[i].command] \o command_queue
        runner == SelectSeq(all, IsPlace)
    IN  /\ Len(runner) = runner_i
        /\ \A k \in 1..Len(runner) : runner[k].item_id = k
        /\ SelectSeq(all, IsOther) = SelectSeq(enqueued, IsOther)
        /\ Len(SelectSeq(all, IsOther)) = extra_n

\* the Reset button's command has been applied between two commands of
\* the plan runner
C18_Witness ==
    /\ Len(applied) >= 3
    /\ IsPlace(applied[1].command)
    /\ applied[2].command = ResetCommand
    /\ IsPlace(applied[3].command)

\* C19: the view a get_simulation_state call returns is the whole state as
\* it stood after some number of applied commands, and its total_items is
\* the sum of the item counts of its bins.
C19_SnapshotAtomic ==
    (snap_pc = Len(BinOrder))
        => /\ \E k \in 0..Len(applied) :
                  LET h == Replay(InitBins, SubSeq(enqueued, 1, k))
                  IN  \A b \in DOMAIN h :
                          snap_view.bins[b].items = h[b].items
           /\ snap_view.total_items =
                  SumSet([b \in DOMAIN snap_view.bins |->
                             Len(snap_view.bins[b].items)],
                         DOMAIN snap_view.bins)

\* the summed width * height of the items of a bin, whatever their shape
BoxArea(bin_data) ==
    SumSet([k \in 1..Len(bin_data.items) |->
               bin_data.items[k].width * bin_data.items[k].height],
           1..Len(bin_data.items))

\* C20: the utilization of a bin in a snapshot is the summed width * height
\* of its items over the bin's width * height, times 100 (kept in units of
\* 0.01 percent, rounded down), and it is 0 for a bin of zero area.
C20_BinUtilization ==
    \A b \in DOMAIN bins :
        /\ get_simulation_state(bins).bins[b].utilization =
               (BoxArea(bins[b]) * 100 * 100)
                   \div (bins[b].width * bins[b].height)
        /\ bin_utilization([bins[b] EXCEPT !.width = 0]) = 0
        /\ bin_utilization([bins[b] EXCEPT !.height = 0]) = 0

\* a bin holds a triangle and a rectangle and has a utilization
C20_Witness ==
    \E b \in DOMAIN bins :
        /\ \E k \in 1..Len(bins[b].items) : bins[b].items[k].shape = "TRIANGLE"
        /\ \E k \in 1..Len(bins[b].items) : bins[b].items[k].shape = "RECTANGLE"
        /\ get_simulation_state(bins).bins[b].utilization > 0

\* the ratio of the total item area to the total bin area, in units of 0.01
\* percent
AreaWeighted(b) ==
    LET used == BoxArea(b[0]) + BoxArea(b[1]) + BoxArea(b[2]) + BoxArea(b[3])
        area == b[0].width * b[0].height + b[1].width * b[1].height
                + b[2].width * b[2].height + b[3].width * b[3].height
    IN  (used * 100 * 100) \div area

\* C21: the overall utilization of a snapshot is the sum of the four per-bin
\* utilization values it reports divided by the number of bins, the plain
\* mean, whatever the sizes of the bins.
C21_UnweightedMean ==
    LET state == get_simulation_state(bins)
    IN  state.total_utilization =
            (state.bins[0].utilization + state.bins[1].utilization
             + state.bins[2].utilization + state.bins[3].utilization)
                \div Cardinality(BinIds)

\* items in two bins of different sizes: the mean of the percentages is not
\* the area-weighted ratio
C21_Witness ==
    /\ bins[0].items # <<>>
    /\ bins[1].items # <<>>
    /\ get_simulation_state(bins).total_utilization # AreaWeighted(bins)

\* the three commands of the scenario: items 1, 2, 3 of 50x50 for bin 0 at
\* (0,0), (25,25), (60,0)
ScenarioCommands ==
    <<PlaceCommand(1, 0, <<0, 0>>, <<50, 50>>, "RECTANGLE", "Rectangle A"),
      PlaceCommand(2, 0, <<25, 25>>, <<50, 50>>, "RECTANGLE", "Rectangle A"),
      PlaceCommand(3, 0, <<60, 0>>, <<50, 50>>, "RECTANGLE", "Rectangle A")>>

\* the engine has applied exactly the scenario's commands
ScenarioRun ==
    /\ Len(applied) = Len(ScenarioCommands)
    /\ \A i \in 1..Len(applied) : applied[i].command = ScenarioCommands[i]

\* item 1 placed, item 2 rejected as overlapping item 1, item 3 placed
ScenarioOutcomes ==
    /\ applied[1].result.tag = "Successfully placed"
    /\ applied[2].result.tag = "Error: overlaps"
    /\ applied[2].result.item_id = 2
    /\ applied[2].result.other = 1
    /\ applied[3].result.tag = "Successfully placed"
    /\ [k \in 1..Len(bins[0].items) |-> bins[0].items[k].item_id] = <<1, 3>>

\* C22 as stated: after the scenario the snapshot reports bin 0 at about
\* 1.03 percent (102 to 104 in units of 0.01 percent).
C22_ScenarioAsStated ==
    ScenarioRun =>
        /\ ScenarioOutcomes
        /\ get_simulation_state(bins).bins[0].utilization \in 102..104

\* C22: after the scenario item 1 and item 3 are placed, item 2 is rejected
\* as overlapping item 1, and the snapshot reports bin 0 at
\* (2500+2500)/(220*220)*100 percent, which is 10.33 percent.
C22_Scenario ==
    ScenarioRun =>
        /\ ScenarioOutcomes
        /\ get_simulation_state(bins).bins[0].utilization
               = ((2500 + 2500) * 100 * 100) \div (220 * 220)
        /\ get_simulation_state(bins).bins[0].utilization = 1033
        /\ stats_text.bins[0].utilization = 103

\* the scenario has been run to its end
C22_Witness ==
    /\ ScenarioRun
    /\ command_queue = <<>>
    /\ Len(bins[0].items) = 2

\* the positions, in placement order, of the items of a bin that overlap
\* the box of command c
OverlappedBy(bin_data, c) ==
    {k \in 1..Len(bin_data.items) : BoxesOverlap(c, bin_data.items[k])}

\* C29: an overlap rejection names the earliest-placed item of the target
\* bin that overlaps the candidate; that item is in the bin when the command
\* is applied and overlaps the candidate.
C29_EarliestOverlap ==
    \A i \in 1..Len(applied) :
        applied[i].result.tag = "Error: overlaps" =>
            LET c == applied[i].command
                before == Replay(InitBins, SubSeq(enqueued, 1, i - 1))
                hits == OverlappedBy(before[c.bin_id], c)
            IN  /\ hits # {}
                /\ \E k \in hits :
                      /\ \A j \in hits : k <= j
                      /\ applied[i].result.other
                             = before[c.bin_id].items[k].item_id

\* a candidate overlapping two items of the bin has been rejected
C29_Witness ==
    \E i \in 1..Len(applied) :
        /\ applied[i].result.tag = "Error: overlaps"
        /\ Cardinality(OverlappedBy(
               Replay(InitBins, SubSeq(enqueued, 1, i - 1))[0],
               applied[i].command)) >= 2

\* the number of successful placements applied since the last Reset
SuccessesSinceReset ==
    Cardinality({i \in 1..Len(applied) :
                    /\ applied[i].result.tag = "Successfully placed"
                    /\ \A j \in (i + 1)..Len(applied) :
                           applied[j].command # ResetCommand})

\* the dispatch loop applies a placement that succeeds in this step
AppliesSuccess ==
    Dequeues /\ JustApplied.result.tag = "Successfully placed"

\* the dispatch loop applies a Reset in this step
AppliesReset == Dequeues /\ JustApplied.command = ResetCommand

\* what a step may do to the bins: a successful placement appends its item
\* to the target bin, a valid placement succeeds, and no step but those and
\* a Reset changes the bins
AppendOnlyStep ==
    /\ AppliesSuccess =>
          LET c == JustApplied.command
          IN  bins' = [bins EXCEPT ![c.bin_id].items =
                          Append(@, PlacedItem(c.item_id, c.item_type,
                                               c.bin_id, c.x, c.y, c.width,
                                               c.height, c.shape))]
    /\ (/\ Dequeues
        /\ IsPlace(JustApplied.command)
        /\ DecidedOutcome(bins, JustApplied.command) = "Successfully placed")
           => AppliesSuccess
    /\ (~ AppliesSuccess /\ ~ AppliesReset) => bins' = bins

\* C23: a valid placement is applied by appending exactly its item at the
\* end of the target bin's sequence, everything else unchanged; no step but
\* a Reset or a successful placement changes the bins; the items held are as
\* many as the successful placements applied since the last Reset.
C23_AppendOnly ==
    /\ [](Len(bins[0].items) + Len(bins[1].items) + Len(bins[2].items)
              + Len(bins[3].items) = SuccessesSinceReset)
    /\ [][AppendOnlyStep]_vars

\* a placement, a Reset and a second placement have been applied: one item
\* held, two successful placements in the history
C23_Witness ==
    /\ Len(applied) = 3
    /\ applied[1].result.tag = "Successfully placed"
    /\ applied[2].command = ResetCommand
    /\ applied[3].result.tag = "Successfully placed"
    /\ SuccessesSinceReset = 1
    /\ Len(bins[applied[3].command.bin_id].items) = 1

\* the command a caller puts to ask for a statistics refresh
UpdateStatsCommand == [type |-> "update_stats"]

\* C24: applying an update_stats command leaves every bin's items, width and
\* height as they were and sets the statistics view to the one derived from
\* those bins.
C24_QueryStatsReadOnly ==
    [][(Dequeues /\ JustApplied.command = UpdateStatsCommand)
          => /\ bins' = bins
             /\ stats_text' = update_stats_sync(bins)
             /\ loop_pc' = "running"]_vars

\* an update_stats command has been applied to bins holding an item
C24_Witness ==
    /\ Len(applied) >= 2
    /\ applied[Len(applied)].command = UpdateStatsCommand
    /\ \E b \in DOMAIN bins : bins[b].items # <<>>
    /\ stats_text = update_stats_sync(bins)

\* C25: a put on the command queue never waits: whatever the queue's length
\* and whatever the dispatch loop is doing, the plan runner with a step left
\* can enqueue it, another thread can put its command, and the Reset button
\* handler, whenever the Tk main loop runs it, enqueues its command.
C25_EnqueueNeverBlocks ==
    /\ ~ queue_full(command_queue)
    /\ runner_i < PlanLen => ENABLED simulate_placement
    /\ extra_n < MaxExtra => ENABLED command_queue_put
    /\ (extra_n < MaxExtra /\ loop_pc # "running") => ENABLED reset_simulation

\* two commands wait on the queue, the dispatch loop is not running and a
\* producer has a command to put
C25_Witness ==
    /\ Len(command_queue) >= 2
    /\ loop_pc # "running"
    /\ extra_n < MaxExtra
    /\ ENABLED reset_simulation

\* C26: a placement with x, y >= 0 into a configured bin is rejected as
\* "does not fit" when x+width > bin.width or y+height > bin.height; into an
\* empty bin it is accepted when x+width <= bin.width and y+height <=
\* bin.height, flush with the far edges included.
C26_FitBoundary ==
    \A i \in 1..Len(applied) :
        LET c == applied[i].command
        IN  (IsPlace(c) /\ c.bin_id \in DOMAIN InitBins /\ c.x >= 0 /\ c.y >= 0)
            => LET bin_data ==
                       Replay(InitBins, SubSeq(enqueued, 1, i - 1))[c.bin_id]
               IN  /\ (c.x + c.width > bin_data.width
                          \/ c.y + c.height > bin_data.height)
                         => applied[i].result.tag = "Error: does not fit"
                   /\ (/\ bin_data.items = <<>>
                       /\ c.x + c.width <= bin_data.width
                       /\ c.y + c.height <= bin_data.height)
                         => applied[i].result.tag = "Successfully placed"
                   /\ (/\ bin_data.items = <<>>
                       /\ c.x + c.width = bin_data.width
                       /\ c.y + c.height = bin_data.height)
                         => applied[i].result.tag = "Successfully placed"

\* bin 0 holds an item flush with both far edges and the item at (200,0)
\* has been rejected as not fitting
C26_Witness ==
    /\ \E k \in 1..Len(bins[0].items) :
          /\ bins[0].items[k].x + bins[0].items[k].width = bins[0].width
          /\ bins[0].items[k].y + bins[0].items[k].height = bins[0].height
    /\ \E i \in 1..Len(applied) :
          /\ applied[i].result.tag = "Error: does not fit"
          /\ applied[i].command.x = 200
          /\ applied[i].command.y = 0
          /\ applied[i].command.bin_id = 0

\* the outcome of a placement c read off the target bin alone
LocalOutcome(bin_data, c) ==
    IF c.x + c.width > bin_data.width \/ c.y + c.height > bin_data.height
    THEN "Error: does not fit"
    ELSE IF OverlappedBy(bin_data, c) # {} THEN "Error: overlaps"
    ELSE "Successfully placed"

\* bins b with every bin but bin_id emptied
OnlyBin(b, bin_id) ==
    [i \in DOMAIN b |-> IF i = bin_id THEN b[i] ELSE [b[i] EXCEPT !.items = <<>>]]

\* box A ends where box B begins, or the other way round, along x
SharesEdge(A, B) == A.x + A.width = B.x \/ B.x + B.width = A.x

\* C27: the outcome of a placement into a configured bin is decided by that
\* bin's width, height and items alone: it is the same with every other bin
\* emptied, and an item that fits and only shares an edge with each item of
\* the bin is placed.
C27_PerBinOverlap ==
    \A i \in 1..Len(applied) :
        LET c == applied[i].command
        IN  (IsPlace(c) /\ c.bin_id \in DOMAIN InitBins)
            => LET before == Replay(InitBins, SubSeq(enqueued, 1, i - 1))
                   bin_data == before[c.bin_id]
               IN  /\ applied[i].result.tag = LocalOutcome(bin_data, c)
                   /\ applied[i].result.tag =
                          execute_command(OnlyBin(before, c.bin_id),
                                          stats_text, c).result.tag
                   /\ (/\ LocalOutcome([bin_data EXCEPT !.items = <<>>], c)
                              = "Successfully placed"
                       /\ \A k \in 1..Len(bin_data.items) :
                              SharesEdge(c, bin_data.items[k]))
                         => applied[i].result.tag = "Successfully placed"

\* bin 0 and bin 1 each hold an item at the same coordinates, and bin 0
\* holds two items that share an edge
C27_Witness ==
    /\ \E k \in 1..Len(bins[0].items) : \E m \in 1..Len(bins[1].items) :
          /\ bins[0].items[k].x = bins[1].items[m].x
          /\ bins[0].items[k].y = bins[1].items[m].y
    /\ \E k \in 1..Len(bins[0].items) : \E m \in 1..Len(bins[0].items) :
          bins[0].items[k].x + bins[0].items[k].width = bins[0].items[m].x

\* command c with its shape and item_type replaced by fixed values
EraseShape(c) ==
    IF IsPlace(c)
    THEN [c EXCEPT !.shape = "RECTANGLE", !.item_type = "Unknown"]
    ELSE c

EraseShapes(cmds) == [k \in 1..Len(cmds) |-> EraseShape(cmds[k])]

\* the item ids, positions and sizes held by each bin, in order
Geometry(b) ==
    [i \in DOMAIN b |->
        [k \in 1..Len(b[i].items) |->
            <<b[i].items[k].item_id, b[i].items[k].x, b[i].items[k].y,
              b[i].items[k].width, b[i].items[k].height>>]]

\* C28: the run on the commands applied so far and the run on the same
\* commands with every shape and item_type replaced give each command the
\* same outcome and leave the same item ids, positions and sizes in every
\* bin; two runs that differ only in shapes and item types therefore agree.
C28_ShapeBlind ==
    /\ Geometry(Replay(InitBins, EraseShapes(SubSeq(enqueued, 1, Len(applied)))))
           = Geometry(bins)
    /\ \A i \in 1..Len(applied) :
           IsPlace(applied[i].command) =>
               execute_command(
                   Replay(InitBins, EraseShapes(SubSeq(enqueued, 1, i - 1))),
                   stats_text, EraseShape(applied[i].command)).result
                   = applied[i].result

\* a triangle has been rejected for overlapping a rectangle held by bin 0
C28_Witness ==
    /\ \E i \in 1..Len(applied) :
          /\ applied[i].result.tag = "Error: overlaps"
          /\ applied[i].command.shape = "TRIANGLE"
          /\ \E k \in 1..Len(bins[0].items) :
                /\ bins[0].items[k].item_id = applied[i].result.other
                /\ bins[0].items[k].shape = "RECTANGLE"

\* a dict whose type, if it has one, is none of the three execute_command
\* knows
IsIgnored(c) ==
    /\ ~ IsNone(c)
    /\ Get(c, "type") \notin {"place_item", "reset", "update_stats"}

\* C30: applying a command of unknown type, or with no type, leaves the bins
\* and the statistics view as they were, and the dispatch loop keeps running
\* with the rest of the queue.
C30_UnknownIgnored ==
    [][(Dequeues /\ IsIgnored(JustApplied.command))
          => /\ bins' = bins
             /\ stats_text' = stats_text
             /\ loop_pc' = "running"
             /\ command_queue' = Tail(command_queue)
             /\ JustApplied.result = NoResult]_vars

\* a dict with no type has been applied after a placement; the item and the
\* statistics are still there and the loop is running
C30_Witness ==
    /\ Len(applied) >= 2
    /\ applied[Len(applied)].command = UntypedCommand
    /\ applied[1].result.tag = "Successfully placed"
    /\ bins[0].items # <<>>
    /\ stats_text = update_stats_sync(bins)
    /\ loop_pc = "running"

\* C31: every bin's utilization is between 0 and 100 percent: the summed
\* width * height of the items it holds is at most its own width * height.
C31_UtilizationBounded ==
    \A b \in DOMAIN bins :
        /\ BoxArea(bins[b]) >= 0
        /\ BoxArea(bins[b]) <= bins[b].width * bins[b].height
        /\ get_simulation_state(bins).bins[b].utilization \in 0..(100 * 100)

\* '{' minus '}' among the first k characters of a text
Depth(text, k) ==
    Cardinality({j \in 1..k : text[j] = "{"})
        - Cardinality({j \in 1..k : text[j] = "}"})

\* the positions of a text where a '}' brings the count back to zero
Closings(text) ==
    {k \in 1..Len(text) : text[k] = "}" /\ Depth(text, k) = 0}

\* the text is one object: it opens with '{', and the '}' that matches
\* it is its last character, blanks at either end aside
OneBalancedObject(text) ==
    LET t == strip(text)
    IN  /\ t # <<>>
        /\ t[1] = "{"
        /\ Closings(t) = {Len(t)}

\* the lines whose first character that is not a blank is '{'
ObjectLines == {i \in 1..Len(output_lines) : startswith_brace(output_lines[i])}

\* the output from its first object line on, as one text
FromStart ==
    join(SubSeq(output_lines, CHOOSE i \in ObjectLines :
                                  \A j \in ObjectLines : i <= j,
                Len(output_lines)))

\* what the extraction does up to the choice of the line range: failure
\* when no line starts with '{' or the count never returns to zero, else
\* the range from the first object line to the first line on which the
\* count returns to zero
ExtractionRange ==
    extraction # NotRun =>
        IF ObjectLines = {}
        THEN extraction.status = "No JSON output found!"
        ELSE IF Closings(FromStart) = {}
        THEN extraction.status = "Incomplete JSON output found!"
        ELSE LET first == CHOOSE k \in Closings(FromStart) :
                              \A j \in Closings(FromStart) : k <= j
                 newlines == Cardinality({j \in 1..first :
                                             FromStart[j] = "\n"})
             IN  /\ extraction.status = "extracted"
                 /\ extraction.json_start + 1 \in ObjectLines
                 /\ \A j \in ObjectLines : extraction.json_start + 1 <= j
                 /\ extraction.json_end
                        = extraction.json_start + newlines + 1
                 /\ extraction.json_output =
                        join(SubSeq(output_lines, extraction.json_start + 1,
                                    extraction.json_end))

\* C32: the extraction fails when no line starts with '{' or the count of
\* '{' and '}' never returns to zero; otherwise it takes the lines from the
\* first that starts with '{' to the first on which the count returns to
\* zero, and that range of lines is exactly one balanced object.
C32_FirstCompleteObject ==
    /\ ExtractionRange
    /\ extraction.status = "extracted"
           => OneBalancedObject(extraction.json_output)

====
